---- MODULE Spec2Model ----
(***************************************************************************)
(* Content store and ingestion pipeline of SchoolOlympiadQuizBot.py.       *)
(*                                                                         *)
(* The SQLite database is a record of four tables (sets of rows) and the   *)
(* AUTOINCREMENT counters of sqlite_sequence.  db is the committed         *)
(* database every fresh connection reads; tx is the private view of the    *)
(* connection opened by parse_excel_and_images, which becomes db only by   *)
(* conn.commit().  Spreadsheet cells are Python values (None, a number, a  *)
(* string); strings are sequences of one-character strings so that strip,  *)
(* lower and split are computed character by character.                    *)
(***************************************************************************)
EXTENDS Integers, Sequences, FiniteSets, TLC

(***************************************************************************)
(* Bounds of the model.                                                    *)
(***************************************************************************)
\* largest value an AUTOINCREMENT counter of the olympiads table may reach
MaxId == 2
\* largest number of data rows of a sheet (sheet.max_row - 1)
MaxRows == 2

(***************************************************************************)
(* Python strings.                                                         *)
(***************************************************************************)
IsSpace(ch) == ch = " "

RECURSIVE LStrip(_)
LStrip(s) == IF s # <<>> /\ IsSpace(Head(s)) THEN LStrip(Tail(s)) ELSE s

RECURSIVE RStrip(_)
RStrip(s) ==
  IF s # <<>> /\ IsSpace(s[Len(s)]) THEN RStrip(SubSeq(s, 1, Len(s) - 1)) ELSE s

\* str.strip()
Strip(s) == RStrip(LStrip(s))

LowerChar(ch) ==
  CASE ch = "A" -> "a" [] ch = "B" -> "b" [] ch = "E" -> "e" [] ch = "F" -> "f"
    [] ch = "I" -> "i" [] ch = "N" -> "n" [] ch = "O" -> "o" [] OTHER -> ch

\* str.lower()
Lower(s) == [i \in 1..Len(s) |-> LowerChar(s[i])]

\* str.split(sep): the fragments between the separators, empty ones included
RECURSIVE SplitFrom(_, _, _)
SplitFrom(s, sep, cur) ==
  IF s = <<>> THEN <<cur>>
  ELSE IF Head(s) = sep THEN <<cur>> \o SplitFrom(Tail(s), sep, <<>>)
  ELSE SplitFrom(Tail(s), sep, Append(cur, Head(s)))

Split(s, sep) == SplitFrom(s, sep, <<>>)

DigitChars == <<"0", "1", "2", "3", "4", "5", "6", "7", "8", "9">>

IsDigit(ch) == \E i \in 1..Len(DigitChars) : DigitChars[i] = ch

DigitVal(ch) == (CHOOSE i \in 1..Len(DigitChars) : DigitChars[i] = ch) - 1

\* the value of a non-empty string of decimal digits
RECURSIVE DigitsValue(_)
DigitsValue(s) ==
  IF s = <<>> THEN 0
  ELSE DigitsValue(SubSeq(s, 1, Len(s) - 1)) * Len(DigitChars) + DigitVal(s[Len(s)])

\* str(n) of a non-negative integer
RECURSIVE Digits(_)
Digits(n) ==
  IF n < Len(DigitChars) THEN <<DigitChars[n + 1]>>
  ELSE Append(Digits(n \div Len(DigitChars)), DigitChars[(n % Len(DigitChars)) + 1])

(***************************************************************************)
(* Python values of spreadsheet cells, as openpyxl hands them over.        *)
(***************************************************************************)
None == [k |-> "none", n |-> 0, s |-> <<>>]
Num(n) == [k |-> "num", n |-> n, s |-> <<>>]
Str(s) == [k |-> "str", n |-> 0, s |-> s]

\* bool(cell)
Truthy(c) ==
  CASE c.k = "none" -> FALSE
    [] c.k = "num" -> c.n # 0
    [] c.k = "str" -> c.s # <<>>

\* str(cell)
PyStr(c) ==
  CASE c.k = "none" -> <<"N", "o", "n", "e">>
    [] c.k = "num" -> Digits(c.n)
    [] c.k = "str" -> c.s

\* float(cell): a number, an infinity, a NaN, or the exception raised
PyFloat(c) ==
  CASE c.k = "none" -> [tag |-> "TypeError", n |-> 0]
    [] c.k = "num" -> [tag |-> "ok", n |-> c.n]
    [] c.k = "str" ->
         LET t == Lower(Strip(c.s)) IN
         IF t # <<>> /\ \A i \in 1..Len(t) : IsDigit(t[i])
           THEN [tag |-> "ok", n |-> DigitsValue(t)]
         ELSE IF t \in {<<"i", "n", "f">>, <<"i", "n", "f", "i", "n", "i", "t", "y">>}
           THEN [tag |-> "inf", n |-> 0]
         ELSE IF t = <<"n", "a", "n">>
           THEN [tag |-> "nan", n |-> 0]
         ELSE [tag |-> "ValueError", n |-> 0]

\* int(float(cell)): int() of an infinity raises OverflowError, of a NaN ValueError
IntFloat(c) ==
  LET f == PyFloat(c) IN
  CASE f.tag = "inf" -> [tag |-> "OverflowError", n |-> 0]
    [] f.tag = "nan" -> [tag |-> "ValueError", n |-> 0]
    [] OTHER -> f

\* QuizBot._clean_value
_clean_value(val) ==
  IF val.k = "none"
     \/ Lower(Strip(PyStr(val))) = <<"n", "o", "n", "e">>
     \/ Strip(PyStr(val)) = <<>>
    THEN <<>>
    ELSE Strip(PyStr(val))

(***************************************************************************)
(* The database: tables as sets of rows, sqlite_sequence as seq.           *)
(***************************************************************************)
EmptyDb ==
  [years |-> {}, topics |-> {}, olympiads |-> {}, olympiad_topics |-> {},
   seq |-> [years |-> 0, topics |-> 0, olympiads |-> 0]]

\* PRAGMA foreign_keys of a connection.  init_database switches it on for its
\* own connection only; every other connection is opened by sqlite3.connect
\* without the pragma and has the SQLite default, off.
foreign_keys == FALSE

\* ON DELETE CASCADE of the schema, enforced only under PRAGMA foreign_keys = ON
Cascade(d) ==
  IF ~foreign_keys THEN d
  ELSE LET oly == {o \in d.olympiads : \E y \in d.years : y.id = o.year_id} IN
       [d EXCEPT !.olympiads = oly,
                 !.olympiad_topics =
                    {ot \in d.olympiad_topics :
                       /\ \E o \in oly : o.id = ot.olympiad_id
                       /\ \E t \in d.topics : t.id = ot.topic_id}]

\* DELETE FROM <table>
DeleteFrom(d, table) == Cascade([d EXCEPT ![table] = {}])

\* INTEGER PRIMARY KEY AUTOINCREMENT: one more than the largest id ever
\* handed out; an INSERT OR IGNORE that is ignored has consumed its id
NextId(d, table) == d.seq[table] + 1

\* mutant of InsertYear: INSERT OR REPLACE, which gives a known year a new id
InsertYear_Replace(d, year) ==
  [d EXCEPT !.years = {y \in @ : y.year # year}
                        \cup {[id |-> NextId(d, "years"), year |-> year]},
            !.seq.years = NextId(d, "years")]

\* INSERT OR IGNORE INTO years (year) VALUES (?)
InsertYear(d, year) ==
  IF \E y \in d.years : y.year = year
    THEN [d EXCEPT !.seq.years = NextId(d, "years")]
  ELSE [d EXCEPT !.years = @ \cup {[id |-> NextId(d, "years"), year |-> year]},
                 !.seq.years = NextId(d, "years")]

\* SELECT id FROM years WHERE year = ?
YearId(d, year) == (CHOOSE y \in d.years : y.year = year).id

\* INSERT OR IGNORE INTO topics (name) VALUES (?)
InsertTopic(d, name) ==
  IF \E t \in d.topics : t.name = name
    THEN [d EXCEPT !.seq.topics = NextId(d, "topics")]
  ELSE [d EXCEPT !.topics = @ \cup {[id |-> NextId(d, "topics"), name |-> name]},
                 !.seq.topics = NextId(d, "topics")]

\* SELECT id FROM topics WHERE name = ?
TopicId(d, name) == (CHOOSE t \in d.topics : t.name = name).id

\* the loop INSERT OR IGNORE INTO topics over topics_list
RECURSIVE InsertTopics(_, _)
InsertTopics(d, topics_list) ==
  IF topics_list = <<>> THEN d
  ELSE InsertTopics(InsertTopic(d, Head(topics_list)), Tail(topics_list))

\* mutant of InsertOrReplaceOlympiad: an update in place, which keeps the id
\* of the row that collides
InsertOrReplaceOlympiad_KeepId(d, o) ==
  LET hit == {x \in d.olympiads :
                x.year_id = o.year_id /\ x.excercise = o.excercise}
      id == IF hit = {} THEN NextId(d, "olympiads")
            ELSE (CHOOSE x \in hit : TRUE).id
  IN  [d EXCEPT !.olympiads = (@ \ hit) \cup {[o EXCEPT !.id = id]},
                !.seq.olympiads = NextId(d, "olympiads")]

\* INSERT OR REPLACE INTO olympiads: the row that collides on
\* UNIQUE(year_id, excercise) is deleted and a new row with a new id is inserted
InsertOrReplaceOlympiad(d, o) ==
  LET kept == {x \in d.olympiads :
                 ~(x.year_id = o.year_id /\ x.excercise = o.excercise)}
      id == NextId(d, "olympiads")
  IN  [Cascade([d EXCEPT !.olympiads = kept])
         EXCEPT !.olympiads = kept \cup {[o EXCEPT !.id = id]},
                !.seq.olympiads = id]

\* c.lastrowid after the INSERT OR REPLACE
LastRowId(d) == d.seq.olympiads

\* the loop INSERT OR IGNORE INTO olympiad_topics over topics_list
LinkTopics(d, olympiad_id, topics_list) ==
  [d EXCEPT !.olympiad_topics =
     @ \cup {[olympiad_id |-> olympiad_id, topic_id |-> TopicId(d, topics_list[i])]
               : i \in 1..Len(topics_list)}]

(***************************************************************************)
(* The sheet: a header (the column names of row 1) and data rows, a row    *)
(* giving one cell per column.                                             *)
(***************************************************************************)
required == <<"Year", "Excercise", "Topic", "Task", "Hint", "Answer">>

PicCols == <<"Task_picture", "Hint_picture", "Answer_picture">>

InSeq(x, s) == \E i \in 1..Len(s) : s[i] = x

Range(s) == {s[i] : i \in 1..Len(s)}

\* line 135: the row is skipped, uncounted, when no cell is truthy and
\* non-blank after strip
IsBlankRow(headers, row) ==
  \A i \in 1..Len(headers) :
     LET cell == row[headers[i]] IN
     ~Truthy(cell) \/ Strip(PyStr(cell)) = <<>>

\* lines 158-160: the picture filename of a row, None without the column
PicOf(headers, row, col) ==
  IF InSeq(col, headers) /\ Truthy(row[col])
    THEN Str(Strip(PyStr(row[col])))
    ELSE None

\* line 168: [t.strip() for t in str(topic_raw).split(',') if t.strip()]
TopicsList(topic_raw) ==
  LET parts == Split(PyStr(topic_raw), ",")
      kept == SelectSeq(parts, LAMBDA t : Strip(t) # <<>>)
  IN  [i \in 1..Len(kept) |-> Strip(kept[i])]

\* lines 134-216: one iteration of the row loop on the connection's view d.
\* outcome: "blank" (continue, uncounted), "skipped" (skipped += 1),
\* "inserted" (inserted += 1), or the exception that leaves the loop:
\* OverflowError of int(), or sqlite3.OperationalError of the first INSERT
\* when another connection holds the write lock
LoadRow(d, headers, row, locked) ==
  LET yr == IntFloat(row.Year)
      ex == IntFloat(row.Excercise)
      t_pic == PicOf(headers, row, "Task_picture")
      h_pic == PicOf(headers, row, "Hint_picture")
      a_pic == PicOf(headers, row, "Answer_picture")
      topics_list == TopicsList(row.Topic)
      d1 == InsertYear(d, yr.n)
      d2 == InsertTopics(d1, topics_list)
      d3 == InsertOrReplaceOlympiad(d2,
              [id |-> 0, year_id |-> YearId(d1, yr.n), excercise |-> ex.n,
               task |-> _clean_value(row.Task), task_picture |-> t_pic,
               hint |-> _clean_value(row.Hint), hint_picture |-> h_pic,
               answer |-> _clean_value(row.Answer), answer_picture |-> a_pic])
      d4 == LinkTopics(d3, LastRowId(d3), topics_list)
  IN
  IF IsBlankRow(headers, row) THEN [outcome |-> "blank", db |-> d]
  ELSE IF yr.tag \in {"ValueError", "TypeError"} THEN [outcome |-> "skipped", db |-> d]
  ELSE IF yr.tag # "ok" THEN [outcome |-> yr.tag, db |-> d]
  ELSE IF ex.tag \in {"ValueError", "TypeError"} THEN [outcome |-> "skipped", db |-> d]
  ELSE IF ex.tag # "ok" THEN [outcome |-> ex.tag, db |-> d]
  ELSE IF ~(/\ yr.n # 0 /\ ex.n # 0 /\ Truthy(row.Topic)
            /\ (Truthy(row.Task) \/ Truthy(t_pic))
            /\ (Truthy(row.Hint) \/ Truthy(h_pic))
            /\ (Truthy(row.Answer) \/ Truthy(a_pic)))
    THEN [outcome |-> "skipped", db |-> d]
  ELSE IF topics_list = <<>> THEN [outcome |-> "skipped", db |-> d]
  ELSE IF locked THEN [outcome |-> "OperationalError", db |-> d]
  ELSE [outcome |-> "inserted", db |-> d4]

(***************************************************************************)
(* Queries of the navigation handlers, on the committed database.          *)
(***************************************************************************)
\* ORDER BY: the ascending sequence of a finite set of integers
RECURSIVE Sorted(_)
Sorted(S) ==
  IF S = {} THEN <<>>
  ELSE LET m == CHOOSE x \in S : \A y \in S : x <= y IN <<m>> \o Sorted(S \ {m})

\* o JOIN years y ON o.year_id = y.id WHERE y.year = year
OlympiadsOfYear(d, year) ==
  {o \in d.olympiads : \E y \in d.years : y.id = o.year_id /\ y.year = year}

\* names of the topics joined to an olympiad id through olympiad_topics
TopicNamesOf(d, olympiad_id) ==
  {t.name : t \in {t \in d.topics :
                     \E ot \in d.olympiad_topics :
                        ot.topic_id = t.id /\ ot.olympiad_id = olympiad_id}}

get_years_from_db(d) == Sorted({y.year : y \in d.years})

get_exercises_for_year(d, year) ==
  Sorted({o.excercise : o \in OlympiadsOfYear(d, year)})

\* [] when no row matches, otherwise [task] with the task's topic names
get_tasks_for_year_and_exercise(d, year, excercise) ==
  LET rows == {o \in OlympiadsOfYear(d, year) : o.excercise = excercise} IN
  IF rows = {} THEN <<>>
  ELSE LET o == CHOOSE o \in rows : TRUE IN
       <<[id |-> o.id, excercise |-> o.excercise,
          task |-> o.task, t_pic |-> o.task_picture,
          hint |-> o.hint, h_pic |-> o.hint_picture,
          answer |-> o.answer, a_pic |-> o.answer_picture,
          topics |-> TopicNamesOf(d, o.id)]>>

\* mutant of get_exercises_by_topics_and_year: the JOIN on years is left out
get_exercises_by_topics_AnyYear(d, year, topic_list) ==
  Sorted({o.excercise : o \in {o \in d.olympiads :
                                 TopicNamesOf(d, o.id) \cap topic_list # {}}})

\* SELECT DISTINCT o.excercise ... WHERE y.year = ? AND t.name IN (...) ORDER BY
get_exercises_by_topics_and_year(d, year, topic_list) ==
  Sorted({o.excercise : o \in {o \in OlympiadsOfYear(d, year) :
                                 TopicNamesOf(d, o.id) \cap topic_list # {}}})

(***************************************************************************)
(* Inputs: the headers and the data rows a sheet may hold.                 *)
(***************************************************************************)
HeaderFull == required \o PicCols
HeaderNoHint == <<"Year", "Excercise", "Topic", "Task", "Answer">> \o PicCols
Headers == {HeaderFull, required, HeaderNoHint}

Row(year, excercise, topic, task, hint, answer, t_pic) ==
  [Year |-> year, Excercise |-> excercise, Topic |-> topic, Task |-> task,
   Hint |-> hint, Answer |-> answer,
   Task_picture |-> t_pic, Hint_picture |-> None, Answer_picture |-> None]

TextH == Str(<<"h">>)
TextA == Str(<<"a">>)

\* rows the loop inserts
GoodRows ==
  { Row(Num(1), Num(1), Str(<<"A">>), Str(<<"t">>), TextH, TextA, None),
    Row(Num(1), Num(1), Str(<<"B">>), Str(<<" ", "u", " ">>), TextH, TextA, None),
    Row(Str(<<" ", "2">>), Num(1), Str(<<"A", ",">>), Str(<<"t">>), TextH, TextA, None),
    Row(Num(1), Num(2), Str(<<"A", ",", " ", "B">>), None, TextH, TextA, Str(<<"p">>)),
    Row(Num(1), Num(1), Str(<<"A">>), Str(<<"n", "o", "n", "e">>), TextH, TextA, None) }

\* rows the loop skips, and a row that makes it raise
BadRows ==
  { Row(None, None, None, None, None, None, None),
    Row(Str(<<"a", "b", "c">>), Num(1), Str(<<"A">>), Str(<<"t">>), TextH, TextA, None),
    Row(Num(1), None, Str(<<"A">>), Str(<<"t">>), TextH, TextA, None),
    Row(Str(<<"i", "n", "f">>), Num(1), Str(<<"A">>), Str(<<"t">>), TextH, TextA, None),
    Row(Num(0), Num(1), Str(<<"A">>), Str(<<"t">>), TextH, TextA, None),
    Row(Num(1), Num(1), Str(<<" ", ",">>), Str(<<"t">>), TextH, TextA, None),
    Row(Num(1), Num(1), Str(<<"A">>), Num(0), TextH, TextA, None),
    Row(Num(1), Num(1), Str(<<"A">>), Str(<<"t">>), None, TextA, None) }

Rows == GoodRows \cup BadRows

(***************************************************************************)
(* Navigation: the states of main_conversation, the texts callers send and *)
(* the entries of QuizBot.user_states.  A text is a sequence of characters *)
(* and whole words; a Cyrillic word is written as one transliterated word. *)
(***************************************************************************)
\* the callers
Users == {1, 2}

\* ConversationHandler.END and the states of lines 30-31 main_conversation uses
END == "END"
CHOOSE_YEAR == "CHOOSE_YEAR"
CHOOSE_EXERCISE == "CHOOSE_EXERCISE"
CHOOSE_TOPIC_EXERCISE == "CHOOSE_TOPIC_EXERCISE"
TASK == "TASK"
HINT == "HINT"
ANSWER == "ANSWER"
ADMIN_MENU == "ADMIN_MENU"

\* the keys of the dictionary "states" of main_conversation
NavStates == {CHOOSE_YEAR, CHOOSE_EXERCISE, CHOOSE_TOPIC_EXERCISE, TASK, HINT, ANSWER}

BTN_START == <<"Nachat">>
BTN_BACK_TO_YEAR == <<"K", " ", "vyboru", " ", "goda">>
BTN_BACK_TO_EXERCISES == <<"K", " ", "vyboru", " ", "zadach">>
BTN_HINT == <<"Podskazka">>
BTN_ANSWER == <<"Otvet">>
BTN_TOPIC_EXERCISES == <<"Zadachi", " ", "po", " ", "teme">>
BTN_ADMIN == <<"Adminka">>

\* an update: a bot command (/start, /cancel) or a text message
Command(name) == [command |-> TRUE, text |-> <<"/", name>>]
Text(t) == [command |-> FALSE, text |-> t]

\* f"{year} задание {n}", the caption of an exercise button
ExerciseText(year, n) == Digits(year) \o <<" ", "zadanie", " ">> \o Digits(n)

\* p in s, for strings
IsInfix(p, s) == \E i \in 0..(Len(s) - Len(p)) : SubSeq(s, i + 1, i + Len(p)) = p

\* s.split(): the non-empty fragments between blanks
Words(s) == SelectSeq(Split(s, " "), LAMBDA w : w # <<>>)

\* int(s) of a string: blanks around, an optional sign, decimal digits
PyInt(s) ==
  LET t == Strip(s)
      signed == t # <<>> /\ Head(t) \in {"+", "-"}
      body == IF signed THEN Tail(t) ELSE t
  IN  IF body # <<>> /\ \A i \in 1..Len(body) : IsDigit(body[i])
        THEN [tag |-> "ok",
              n |-> IF signed /\ Head(t) = "-" THEN 0 - DigitsValue(body)
                    ELSE DigitsValue(body)]
        ELSE [tag |-> "ValueError", n |-> 0]

\* the value of 'current_task' before choose_exercise has stored one
NoTask ==
  [id |-> 0, excercise |-> 0, task |-> <<>>, t_pic |-> None, hint |-> <<>>,
   h_pic |-> None, answer |-> <<>>, a_pic |-> None, topics |-> {}]

\* user_states.get(user_id) of a caller without an entry
NoState ==
  [keys |-> {}, year |-> 0, exercises |-> <<>>,
   current_task |-> NoTask, current_topics |-> {}]

\* a reply to the caller: its kind, the list on its keyboard, the task shown
Reply(kind, list, task) == [kind |-> kind, list |-> list, task |-> task]

(***************************************************************************)
(* State.                                                                  *)
(***************************************************************************)
VARIABLES
  db,      \* the committed database (file quiz_bot.db)
  tx,      \* the view of the connection of the running parse_excel_and_images
  pc,      \* "idle", or "rows" inside the row loop of parse_excel_and_images
  run,     \* locals of the running parse_excel_and_images call
  ret,     \* the last store operation and what it returned
  stale,   \* a run that raised left its connection unclosed and that
           \* connection, not yet finalised, still holds the write lock
  loaded,  \* history: the rows the current or last run inserted, last per task
  prev,    \* history: the store operation before the current or last one
  conv,    \* the state of main_conversation per caller, END without one
  user_states,  \* QuizBot.user_states: the session entry per caller
  out,     \* the last update handled: caller, handler, state before, reply
  admin_conv,   \* the state of admin_conv per caller, END without one
  admin_ids,    \* QuizBot.admin_ids: the administrators, from ADMIN_IDS
  uploads  \* per operator, the position of its admin_upload_file coroutine

vars ==
  <<db, tx, pc, run, ret, stale, loaded, prev, conv, user_states, out,
    admin_conv, admin_ids, uploads>>

\* the variables of the store and of an ingestion run
store_vars == <<db, tx, pc, run, ret, stale, loaded, prev>>

\* the variables of the navigation
nav_vars == <<conv, user_states, out>>

\* the variables of the administration
admin_vars == <<admin_conv, admin_ids, uploads>>

\* an operator whose admin_upload_file is not running
NoUpload ==
  [pos |-> "none", replace |-> FALSE, rows |-> <<>>, view |-> EmptyDb,
   inserted |-> 0]

NoOut ==
  [user |-> 0, handler |-> "none", from |-> END,
   reply |-> Reply("none", <<>>, NoTask), raised |-> FALSE]

NoRun ==
  [replace |-> FALSE, headers |-> <<>>, max_row |-> 0, row_num |-> 0,
   inserted |-> 0, skipped |-> 0]

Init ==
  /\ db = EmptyDb
  /\ tx = EmptyDb
  /\ pc = "idle"
  /\ run = NoRun
  /\ ret = [op |-> "none", value |-> FALSE, error |-> "none"]
  /\ stale = FALSE
  /\ loaded = {}
  /\ prev = [op |-> "none", pairs |-> {}]
  /\ conv = [u \in Users |-> END]
  /\ user_states = [u \in Users |-> NoState]
  /\ out = NoOut
  /\ admin_conv = [u \in Users |-> END]
  /\ admin_ids = {1}
  /\ uploads = [u \in Users |-> NoUpload]

\* the name of an ingestion mode
Mode(replace) == IF replace THEN "replace" ELSE "append"

\* the (year, exercise) pairs of a set of loaded rows
PairsOf(L) == {<<l.year, l.excercise>> : l \in L}

\* history bookkeeping when a store operation begins
BeginOp ==
  /\ loaded' = {}
  /\ prev' = [op |-> ret.op, pairs |-> PairsOf(loaded)]

(***************************************************************************)
(* parse_excel_and_images, lines 95-131: the header checks, the connection *)
(* and, under replace, the four DELETEs.                                   *)
(***************************************************************************)
Wipe(d) ==
  DeleteFrom(DeleteFrom(DeleteFrom(DeleteFrom(d,
    "olympiad_topics"), "olympiads"), "topics"), "years")

\* mutant of IsEmptySheet: the bound off by one
IsEmptySheet_OffByOne(max_row) == max_row < 1

\* line 100: a sheet of fewer than two rows is refused
IsEmptySheet(max_row) == max_row < 2

\* mutant of MissingColumn: only the first required column is looked for
MissingColumn_FirstOnly(headers) == ~InSeq(required[1], headers)

\* lines 107-110: a required column the header does not name
MissingColumn(headers) == \E i \in 1..Len(required) : ~InSeq(required[i], headers)

ParseBegin(replace, headers, max_row) ==
  /\ pc = "idle"
  /\ BeginOp
  /\ db' = db
  /\ stale' = stale
  /\ IF IsEmptySheet(max_row)
       THEN /\ ret' = [op |-> Mode(replace), value |-> FALSE, error |-> "empty"]
            /\ pc' = "idle"
            /\ run' = NoRun
            /\ tx' = db
     ELSE IF MissingColumn(headers)
       THEN /\ ret' = [op |-> Mode(replace), value |-> FALSE,
                       error |-> "Missing column"]
            /\ pc' = "idle"
            /\ run' = NoRun
            /\ tx' = db
     ELSE IF replace /\ stale
       THEN /\ ret' = [op |-> Mode(replace), value |-> FALSE,
                       error |-> "OperationalError"]
            /\ pc' = "idle"
            /\ run' = NoRun
            /\ tx' = db
     ELSE /\ ret' = [op |-> Mode(replace), value |-> FALSE, error |-> "running"]
          /\ pc' = "rows"
          /\ run' = [replace |-> replace, headers |-> headers, max_row |-> max_row,
                     row_num |-> 2, inserted |-> 0, skipped |-> 0]
          /\ tx' = IF replace THEN Wipe(db) ELSE db

(***************************************************************************)
(* parse_excel_and_images, one iteration of the loop of lines 133-216; on  *)
(* the last row, the commit of lines 218-221; on an exception, lines       *)
(* 223-225: the function returns False without closing the connection, so   *)
(* nothing it wrote is committed; the connection keeps its write lock      *)
(* until the interpreter finalises it (Collect).                           *)
(***************************************************************************)
\* mutant of Commit: the connection commits on the failure path too
Commit_Always(d, t, success) == t

\* the database the other connections see once the run is over
Commit(d, t, success) == IF success THEN t ELSE d

\* the topic names a (year, exercise) has in database d, {} without the task
TopicsIn(d, year, excercise) ==
  UNION {t.topics : t \in Range(get_tasks_for_year_and_exercise(d, year, excercise))}

ParseRow(row) ==
  /\ pc = "rows"
  /\ LET r == LoadRow(tx, run.headers, row, stale)
         yr == IntFloat(row.Year).n
         ex == IntFloat(row.Excercise).n
         counted == [run EXCEPT
                       !.row_num = @ + 1,
                       !.inserted = IF r.outcome = "inserted" THEN @ + 1 ELSE @,
                       !.skipped = IF r.outcome = "skipped" THEN @ + 1 ELSE @]
     IN
     /\ r.db.seq.olympiads <= MaxId
     /\ loaded' = IF r.outcome = "inserted"
                    THEN {l \in loaded : <<l.year, l.excercise>> # <<yr, ex>>}
                           \cup {[year |-> yr, excercise |-> ex, row |-> row,
                                  headers |-> run.headers,
                                  old_topics |-> TopicsIn(db, yr, ex)
                                                   \cup TopicsIn(tx, yr, ex)]}
                    ELSE loaded
     /\ IF r.outcome \in {"OverflowError", "OperationalError"}
          THEN /\ ret' = [ret EXCEPT !.value = FALSE, !.error = r.outcome]
               /\ pc' = "idle"
               /\ run' = NoRun
               /\ db' = Commit(db, r.db, FALSE)
               /\ tx' = db'
               /\ stale' = (stale \/ run.replace \/ run.inserted > 0)
        ELSE IF run.row_num = run.max_row
          THEN /\ ret' = [ret EXCEPT !.value = TRUE, !.error = "none"]
               /\ pc' = "idle"
               /\ run' = NoRun
               /\ db' = Commit(db, r.db, TRUE)
               /\ tx' = db'
               /\ stale' = stale
        ELSE /\ ret' = ret
             /\ pc' = "rows"
             /\ run' = counted
             /\ db' = db
             /\ tx' = r.db
             /\ stale' = stale
  /\ UNCHANGED prev

(***************************************************************************)
(* clear_database, lines 227-238.                                          *)
(***************************************************************************)
\* mutant of ClearTables: the years are left in place
ClearTables_KeepsYears(d) == DeleteFrom(DeleteFrom(d, "olympiads"), "topics")

\* lines 231-233: the three DELETEs of clear_database
ClearTables(d) ==
  DeleteFrom(DeleteFrom(DeleteFrom(d, "olympiads"), "topics"), "years")

\* the DELETEs raise sqlite3.OperationalError while another connection holds
\* the write lock; the except clause logs it and nothing is deleted
clear_database ==
  /\ pc = "idle"
  /\ BeginOp
  /\ db' = IF stale THEN db ELSE ClearTables(db)
  /\ tx' = db'
  /\ ret' = [op |-> "clear", value |-> ~stale,
             error |-> IF stale THEN "OperationalError" ELSE "none"]
  /\ run' = NoRun
  /\ pc' = "idle"
  /\ stale' = stale

(***************************************************************************)
(* The interpreter finalises the connection a failed run left open: its    *)
(* uncommitted transaction is rolled back and its lock released.           *)
(***************************************************************************)
Collect ==
  /\ stale
  /\ stale' = FALSE
  /\ UNCHANGED <<db, tx, pc, run, ret, loaded, prev>>

\* the store and one ingestion run step by step; nobody navigates
Next ==
  \/ \E replace \in BOOLEAN, headers \in Headers, max_row \in 1..(MaxRows + 1) :
        ParseBegin(replace, headers, max_row) /\ UNCHANGED <<nav_vars, admin_vars>>
  \/ \E row \in Rows : ParseRow(row) /\ UNCHANGED <<nav_vars, admin_vars>>
  \/ clear_database /\ UNCHANGED <<nav_vars, admin_vars>>
  \/ Collect /\ UNCHANGED <<nav_vars, admin_vars>>

Spec == Init /\ [][Next]_vars

(***************************************************************************)
(* parse_excel_and_images as one call.  The function has no await: the     *)
(* event loop runs no other handler between its first and its last line.   *)
(***************************************************************************)
\* lines 133-216 over the rows of the sheet: the view of the connection
\* after the loop, or the exception that left it
RECURSIVE RunRows(_, _, _, _, _)
RunRows(d, headers, rows, locked, inserted) ==
  IF rows = <<>> THEN [outcome |-> "done", db |-> d, inserted |-> inserted]
  ELSE LET r == LoadRow(d, headers, Head(rows), locked) IN
       IF r.outcome \in {"OverflowError", "OperationalError"}
         THEN [outcome |-> r.outcome, db |-> d, inserted |-> inserted]
         ELSE RunRows(r.db, headers, Tail(rows), locked,
                      IF r.outcome = "inserted" THEN inserted + 1 ELSE inserted)

\* value: what the call returns; db: the committed database after it;
\* stale: whether it left a connection that holds the write lock
parse_excel_and_images(d, locked, replace, headers, rows) ==
  IF IsEmptySheet(Len(rows) + 1) \/ MissingColumn(headers) \/ (replace /\ locked)
    THEN [value |-> FALSE, db |-> d, stale |-> locked]
  ELSE LET r == RunRows(IF replace THEN Wipe(d) ELSE d, headers, rows, locked, 0) IN
       IF r.outcome = "done"
         THEN [value |-> TRUE, db |-> Commit(d, r.db, TRUE), stale |-> locked]
         ELSE [value |-> FALSE, db |-> Commit(d, r.db, FALSE),
               stale |-> (locked \/ replace \/ r.inserted > 0)]

(***************************************************************************)
(* The navigation handlers, lines 334-598.  Each handler is an operator    *)
(* from the database and the caller's entry of user_states to the state it *)
(* returns, the entry it leaves and the reply it sends.                    *)
(***************************************************************************)
Result(next, state, reply) ==
  [next |-> next, state |-> state, reply |-> reply, raised |-> FALSE]

\* the handler raised: PTB logs the exception and keeps the conversation state
Raised(state, error) ==
  [next |-> END, state |-> state, reply |-> Reply(error, <<>>, NoTask),
   raised |-> TRUE]

\* start, lines 334-363.  save_user_to_db writes, so it raises
\* sqlite3.OperationalError while another connection holds the write lock
StartResult(d, locked, state) ==
  IF locked THEN Raised(state, "OperationalError")
  ELSE IF get_years_from_db(d) = <<>>
    THEN Result(END, state, Reply("no_years", <<>>, NoTask))
  ELSE Result(CHOOSE_YEAR, state, Reply("greeting", <<>>, NoTask))

\* choose_year, lines 365-412
ChooseYearResult(d, state, text) ==
  LET years == get_years_from_db(d)
      year == PyInt(text)
      exercises == get_exercises_for_year(d, year.n)
  IN  IF text = BTN_START
        THEN Result(CHOOSE_YEAR, state, Reply("years", years, NoTask))
      ELSE IF year.tag = "ValueError"
        THEN IF years = <<>>
               THEN Result(END, state, Reply("no_years", <<>>, NoTask))
               ELSE Result(CHOOSE_YEAR, state, Reply("year_from_list", years, NoTask))
      ELSE IF exercises = <<>>
        THEN Result(CHOOSE_YEAR, state, Reply("no_tasks_in_year", <<>>, NoTask))
      ELSE Result(CHOOSE_EXERCISE,
                  [keys |-> {"year", "exercises"}, year |-> year.n,
                   exercises |-> exercises,
                   current_task |-> NoTask, current_topics |-> {}],
                  Reply("exercises", exercises, NoTask))

\* str(n) of an integer
PyStrInt(n) == IF n < 0 THEN <<"-">> \o Digits(0 - n) ELSE Digits(n)

\* lines 423-428: the exercise number the text selects
ParseExercise(year, text) ==
  IF IsInfix(PyStrInt(year) \o <<" ", "zadanie", " ">>, text)
    THEN IF Words(text) = <<>> THEN [tag |-> "IndexError", n |-> 0]
         ELSE PyInt(Words(text)[Len(Words(text))])
    ELSE [tag |-> "ValueError", n |-> 0]

\* lines 443-449: SELECT t.name FROM topics t JOIN olympiad_topics ot
\* JOIN olympiads o JOIN years y WHERE y.year = ? AND o.excercise = ?
TopicsOfExercise(d, year, excercise) ==
  {t.name : t \in {t \in d.topics :
     \E ot \in d.olympiad_topics, o \in d.olympiads, y \in d.years :
        /\ t.id = ot.topic_id /\ ot.olympiad_id = o.id /\ o.year_id = y.id
        /\ y.year = year /\ o.excercise = excercise}}

\* choose_exercise, lines 414-462
ChooseExerciseResult(d, locked, state, text) ==
  LET excercise == ParseExercise(state.year, text)
      tasks == get_tasks_for_year_and_exercise(d, state.year, excercise.n)
  IN  IF state.keys = {} THEN StartResult(d, locked, state)
      ELSE IF excercise.tag # "ok"
        THEN Result(CHOOSE_EXERCISE, state, Reply("choose_from_list", <<>>, NoTask))
      ELSE IF tasks = <<>>
        THEN Result(CHOOSE_EXERCISE, state, Reply("not_found", <<>>, NoTask))
      ELSE Result(TASK,
                  [keys |-> {"year", "exercises", "current_task",
                             "current_topics", "current_topic_str"},
                   year |-> state.year, exercises |-> state.exercises,
                   current_task |-> tasks[1],
                   current_topics |-> TopicsOfExercise(d, state.year, excercise.n)],
                  Reply("task", <<>>, tasks[1]))

\* show_hint, lines 484-510
ShowHintResult(state) ==
  IF state.keys = {} \/ "current_task" \notin state.keys
    THEN Result(CHOOSE_YEAR, state, Reply("no_active_task", <<>>, NoTask))
    ELSE Result(HINT, state, Reply("hint", <<>>, state.current_task))

\* show_answer, lines 512-537
ShowAnswerResult(state) ==
  IF state.keys = {} \/ "current_task" \notin state.keys
    THEN Result(CHOOSE_YEAR, state, Reply("no_active_task", <<>>, NoTask))
    ELSE Result(ANSWER, state, Reply("answer", <<>>, state.current_task))

\* show_task_from_state, lines 562-568
ShowTaskFromStateResult(d, locked, state, kind) ==
  IF state.keys = {} \/ "current_task" \notin state.keys
    THEN StartResult(d, locked, state)
    ELSE Result(TASK, state, Reply(kind, <<>>, state.current_task))

\* show_topic_exercises, lines 539-560
ShowTopicExercisesResult(d, locked, state) ==
  LET exercises ==
        get_exercises_by_topics_and_year(d, state.year, state.current_topics)
  IN  IF state.keys = {} \/ "current_topics" \notin state.keys
        THEN StartResult(d, locked, state)
      ELSE IF exercises = <<>>
        THEN ShowTaskFromStateResult(d, locked, state, "no_other_then_task")
      ELSE Result(CHOOSE_TOPIC_EXERCISE, state,
                  Reply("topic_exercises", exercises, NoTask))

\* back_to_year_selection, lines 570-574
BackToYearSelectionResult(d, state, text) == ChooseYearResult(d, NoState, text)

\* mutant of BackToExercisesResult: the list is fetched from the store again
BackToExercisesResult_Refetch(d, locked, state) ==
  IF state.keys = {} \/ "year" \notin state.keys \/ "exercises" \notin state.keys
    THEN StartResult(d, locked, state)
    ELSE Result(CHOOSE_EXERCISE,
                [state EXCEPT !.exercises = get_exercises_for_year(d, state.year)],
                Reply("exercises", get_exercises_for_year(d, state.year), NoTask))

\* mutant of BackToExercisesResult: the entry is written anew, as choose_year
\* writes it, without the current task
BackToExercisesResult_DropsTask(d, locked, state) ==
  IF state.keys = {} \/ "year" \notin state.keys \/ "exercises" \notin state.keys
    THEN StartResult(d, locked, state)
    ELSE Result(CHOOSE_EXERCISE,
                [keys |-> {"year", "exercises"}, year |-> state.year,
                 exercises |-> state.exercises,
                 current_task |-> NoTask, current_topics |-> {}],
                Reply("exercises", state.exercises, NoTask))

\* back_to_exercises, lines 576-593
BackToExercisesResult(d, locked, state) ==
  IF state.keys = {} \/ "year" \notin state.keys \/ "exercises" \notin state.keys
    THEN StartResult(d, locked, state)
    ELSE Result(CHOOSE_EXERCISE, state, Reply("exercises", state.exercises, NoTask))

\* mutant of CancelResult: the entry of user_states is not popped
CancelResult_KeepsEntry(state) == Result(END, state, Reply("cancelled", <<>>, NoTask))

\* cancel, lines 595-598
CancelResult(state) == Result(END, NoState, Reply("cancelled", <<>>, NoTask))

\* admin_start, lines 602-621, called by main_conversation
AdminStartResult(user_id, state) ==
  IF user_id \notin admin_ids
    THEN Result(END, state, Reply("denied", <<>>, NoTask))
    ELSE Result(ADMIN_MENU, state, Reply("admin_panel", <<>>, NoTask))

(***************************************************************************)
(* main_conversation, lines 728-770: the handler an update is given to.    *)
(* The handlers of the caller's state are tried in order, then the         *)
(* fallbacks; a caller without a conversation has the entry point only.    *)
(***************************************************************************)
\* filters.Text(list)
IsText(update, list) == ~update.command /\ update.text \in list

\* filters.TEXT & ~filters.COMMAND
AnyText(update) == ~update.command

StateHandler(state, update) ==
  CASE state = CHOOSE_YEAR ->
         IF IsText(update, {BTN_START, BTN_BACK_TO_YEAR}) THEN "choose_year"
         ELSE IF IsText(update, {BTN_ADMIN}) THEN "admin_start"
         ELSE IF AnyText(update) THEN "choose_year"
         ELSE "none"
    [] state = CHOOSE_EXERCISE ->
         IF IsText(update, {BTN_BACK_TO_YEAR}) THEN "back_to_year_selection"
         ELSE IF AnyText(update) THEN "choose_exercise"
         ELSE "none"
    [] state = CHOOSE_TOPIC_EXERCISE ->
         IF IsText(update, {BTN_BACK_TO_YEAR}) THEN "back_to_year_selection"
         ELSE IF IsText(update, {BTN_BACK_TO_EXERCISES}) THEN "back_to_exercises"
         ELSE IF AnyText(update) THEN "choose_exercise"
         ELSE "none"
    [] state = TASK ->
         IF IsText(update, {BTN_HINT}) THEN "show_hint"
         ELSE IF IsText(update, {BTN_ANSWER}) THEN "show_answer"
         ELSE IF IsText(update, {BTN_TOPIC_EXERCISES}) THEN "show_topic_exercises"
         ELSE IF IsText(update, {BTN_BACK_TO_EXERCISES}) THEN "back_to_exercises"
         ELSE IF IsText(update, {BTN_BACK_TO_YEAR}) THEN "back_to_year_selection"
         ELSE "none"
    [] state = HINT ->
         IF IsText(update, {BTN_ANSWER}) THEN "show_answer"
         ELSE IF IsText(update, {BTN_BACK_TO_EXERCISES}) THEN "back_to_exercises"
         ELSE IF IsText(update, {BTN_BACK_TO_YEAR}) THEN "back_to_year_selection"
         ELSE "none"
    [] state = ANSWER ->
         IF IsText(update, {BTN_BACK_TO_EXERCISES}) THEN "back_to_exercises"
         ELSE IF IsText(update, {BTN_BACK_TO_YEAR}) THEN "back_to_year_selection"
         ELSE "none"
    [] OTHER -> "none"

Fallback(update) ==
  IF update = Command("cancel") THEN "cancel"
  ELSE IF update = Command("start") THEN "start"
  ELSE IF IsText(update, {BTN_START}) THEN "start"
  ELSE IF IsText(update, {<<"Otmena">>, <<"Cancel">>}) THEN "cancel"
  ELSE "none"

Route(state, update) ==
  IF state = END
    THEN IF update = Command("start") THEN "start" ELSE "none"
  ELSE IF StateHandler(state, update) # "none" THEN StateHandler(state, update)
  ELSE Fallback(update)

(***************************************************************************)
(* The updates callers send, and the bundles the administrator uploads.    *)
(***************************************************************************)
\* largest value the AUTOINCREMENT counter of olympiads reaches by uploads
MaxUploadId == 2

Texts ==
  {BTN_START, BTN_BACK_TO_YEAR, BTN_BACK_TO_EXERCISES, BTN_HINT, BTN_ANSWER,
   BTN_TOPIC_EXERCISES, BTN_ADMIN, <<"Cancel">>, <<"a", "b", "c">>}
  \cup {Digits(year) : year \in 1..2}
  \cup {ExerciseText(year, n) : year \in 1..2, n \in 1..2}

Updates == {Command("start"), Command("cancel")} \cup {Text(t) : t \in Texts}

SheetRow(year, excercise, topic) ==
  Row(Num(year), Num(excercise), Str(topic), Str(<<"t">>), TextH, TextA, None)

\* exercise 1 of year 1 on topic A; exercise 2 of year 1 on topics A and B;
\* a sheet whose second row makes the run raise
Sheets ==
  { <<SheetRow(1, 1, <<"A">>)>>,
    <<SheetRow(1, 2, <<"A", ",", " ", "B">>)>>,
    <<SheetRow(1, 3, <<"A">>),
      Row(Str(<<"i", "n", "f">>), Num(1), Str(<<"A">>), Str(<<"t">>),
          TextH, TextA, None)>> }

(***************************************************************************)
(* Actions of the navigation: one update of one caller, handled by the     *)
(* handler main_conversation routes it to; an upload or a clear by the     *)
(* administrator; a restart of the process.                                *)
(***************************************************************************)
\* callers come one after another: a caller sends updates only while no
\* other caller has a conversation or an entry in user_states
Alone(u) == \A v \in Users \ {u} : conv[v] = END /\ user_states[v] = NoState

\* mutant of Handle: one entry of user_states shared by all callers
Handle_SharedEntry(u, handler, r) ==
  /\ conv' = IF r.raised THEN conv ELSE [conv EXCEPT ![u] = r.next]
  /\ user_states' = [v \in Users |-> r.state]
  /\ out' = [user |-> u, handler |-> handler, from |-> conv[u],
             reply |-> r.reply, raised |-> r.raised]
  /\ UNCHANGED <<store_vars, admin_vars>>

\* ConversationHandler.handle_update: the handler's return value becomes the
\* caller's state (kept when it raised); the handler wrote the caller's entry
Handle(u, handler, r) ==
  /\ conv' = IF r.raised THEN conv ELSE [conv EXCEPT ![u] = r.next]
  /\ user_states' = [user_states EXCEPT ![u] = r.state]
  /\ out' = [user |-> u, handler |-> handler, from |-> conv[u],
             reply |-> r.reply, raised |-> r.raised]
  /\ UNCHANGED <<store_vars, admin_vars>>

start(u, update) ==
  /\ Route(conv[u], update) = "start"
  /\ Handle(u, "start", StartResult(db, stale, user_states[u]))

choose_year(u, update) ==
  /\ Route(conv[u], update) = "choose_year"
  /\ Handle(u, "choose_year", ChooseYearResult(db, user_states[u], update.text))

choose_exercise(u, update) ==
  /\ Route(conv[u], update) = "choose_exercise"
  /\ Handle(u, "choose_exercise",
            ChooseExerciseResult(db, stale, user_states[u], update.text))

show_hint(u, update) ==
  /\ Route(conv[u], update) = "show_hint"
  /\ Handle(u, "show_hint", ShowHintResult(user_states[u]))

show_answer(u, update) ==
  /\ Route(conv[u], update) = "show_answer"
  /\ Handle(u, "show_answer", ShowAnswerResult(user_states[u]))

show_topic_exercises(u, update) ==
  /\ Route(conv[u], update) = "show_topic_exercises"
  /\ Handle(u, "show_topic_exercises",
            ShowTopicExercisesResult(db, stale, user_states[u]))

back_to_year_selection(u, update) ==
  /\ Route(conv[u], update) = "back_to_year_selection"
  /\ Handle(u, "back_to_year_selection",
            BackToYearSelectionResult(db, user_states[u], update.text))

back_to_exercises(u, update) ==
  /\ Route(conv[u], update) = "back_to_exercises"
  /\ Handle(u, "back_to_exercises", BackToExercisesResult(db, stale, user_states[u]))

cancel(u, update) ==
  /\ Route(conv[u], update) = "cancel"
  /\ Handle(u, "cancel", CancelResult(user_states[u]))

admin_start(u, update) ==
  /\ Route(conv[u], update) = "admin_start"
  /\ Handle(u, "admin_start", AdminStartResult(u, user_states[u]))

\* no handler of main_conversation takes the update: nothing is called
Unhandled(u, update) ==
  /\ Route(conv[u], update) = "none"
  /\ out' = [user |-> u, handler |-> "none", from |-> conv[u],
             reply |-> Reply("none", <<>>, NoTask), raised |-> FALSE]
  /\ UNCHANGED <<conv, user_states>>
  /\ UNCHANGED <<store_vars, admin_vars>>

\* admin_upload_file, line 678: the administrator's bundle is ingested
Upload(replace, headers, rows) ==
  \E r \in {parse_excel_and_images(db, stale, replace, headers, rows)} :
  /\ r.db.seq.olympiads <= MaxUploadId
  /\ db' = r.db
  /\ tx' = r.db
  /\ stale' = r.stale
  /\ UNCHANGED <<pc, run, ret, loaded, prev>>
  /\ UNCHANGED <<nav_vars, admin_vars>>

\* admin_confirm_clear, line 689
ClearAll ==
  /\ db' = IF stale THEN db ELSE ClearTables(db)
  /\ tx' = db'
  /\ UNCHANGED <<pc, run, ret, stale, loaded, prev>>
  /\ UNCHANGED <<nav_vars, admin_vars>>

\* the process is started again: __init__ makes user_states empty, while
\* PicklePersistence gives main_conversation (persistent=True) its states back
Restart ==
  /\ user_states' = [u \in Users |-> NoState]
  /\ stale' = FALSE
  /\ out' = NoOut
  /\ UNCHANGED <<db, tx, pc, run, ret, loaded, prev, conv>>
  /\ UNCHANGED admin_vars

\* Application.process_update: the update of a caller is handled
ProcessUpdate(u, update) ==
  \/ start(u, update)
  \/ choose_year(u, update)
  \/ choose_exercise(u, update)
  \/ show_hint(u, update)
  \/ show_answer(u, update)
  \/ show_topic_exercises(u, update)
  \/ back_to_year_selection(u, update)
  \/ back_to_exercises(u, update)
  \/ cancel(u, update)
  \/ admin_start(u, update)
  \/ Unhandled(u, update)

NavNext ==
  \/ \E u \in Users, update \in Updates :
        \/ Alone(u) /\ start(u, update)
        \/ Alone(u) /\ choose_year(u, update)
        \/ Alone(u) /\ choose_exercise(u, update)
        \/ Alone(u) /\ show_hint(u, update)
        \/ Alone(u) /\ show_answer(u, update)
        \/ Alone(u) /\ show_topic_exercises(u, update)
        \/ Alone(u) /\ back_to_year_selection(u, update)
        \/ Alone(u) /\ back_to_exercises(u, update)
        \/ Alone(u) /\ cancel(u, update)
        \/ Alone(u) /\ admin_start(u, update)
        \/ Alone(u) /\ Unhandled(u, update)
  \/ \E replace \in BOOLEAN, rows \in Sheets : Upload(replace, required, rows)
  \/ ClearAll
  \/ Collect /\ UNCHANGED <<nav_vars, admin_vars>>
  \/ Restart

NavSpec == Init /\ [][NavNext]_vars

(***************************************************************************)
(* Two callers whose updates interleave freely.  conv is keyed by the      *)
(* caller (the conversation key of main_conversation), user_states by      *)
(* update.effective_user.id.                                               *)
(***************************************************************************)
ConcUpdates ==
  {Command("start"), Command("cancel")}
  \cup {Text(t) : t \in {BTN_START, BTN_HINT, BTN_ANSWER, BTN_TOPIC_EXERCISES,
                         BTN_BACK_TO_YEAR, BTN_BACK_TO_EXERCISES, Digits(1),
                         ExerciseText(1, 1), ExerciseText(1, 2)}}

\* one bundle: exercises 1 and 2 of year 1, sharing topic A
ConcSheets ==
  { <<SheetRow(1, 1, <<"A">>), SheetRow(1, 2, <<"A", ",", " ", "B">>)>> }

ConcNext ==
  \/ \E u \in Users, update \in ConcUpdates :
        \/ start(u, update)
        \/ choose_year(u, update)
        \/ choose_exercise(u, update)
        \/ show_hint(u, update)
        \/ show_answer(u, update)
        \/ show_topic_exercises(u, update)
        \/ back_to_year_selection(u, update)
        \/ back_to_exercises(u, update)
        \/ cancel(u, update)
        \/ Unhandled(u, update)
  \/ \E rows \in ConcSheets : Upload(FALSE, required, rows)
  \/ ClearAll

ConcSpec == Init /\ [][ConcNext]_vars

(***************************************************************************)
(* admin_upload_file, lines 646-685, as a coroutine of the event loop, one *)
(* per operator who has sent a bundle.  It yields to the loop at its awaits *)
(* (get_file and download_to_drive before the ingestion, reply_text after   *)
(* it); parse_excel_and_images, line 678, has no await.  pos is the place   *)
(* the coroutine is at, view what its connection sees.                     *)
(***************************************************************************)
\* mutant of Suspends: the row loop yields to the event loop as well
Suspends_InLoop(pos) == TRUE

\* the coroutine is not running or is suspended at an await
Suspends(pos) == pos \in {"none", "get_file", "reply"}

\* the event loop may run a step of operator a: no other coroutine is in
\* the middle of synchronous code
LoopFree(a) == \A b \in Users \ {a} : Suspends(uploads[b].pos)

\* lines 647-654: the bundle of the operator arrives, the handler awaits
\* the download
upload_received(a, replace, rows) ==
  /\ LoopFree(a)
  /\ uploads[a].pos = "none"
  /\ uploads' = [uploads EXCEPT ![a] =
                   [pos |-> "get_file", replace |-> replace, rows |-> rows,
                    view |-> EmptyDb, inserted |-> 0]]
  /\ UNCHANGED <<store_vars, nav_vars, admin_conv, admin_ids>>

\* line 678 up to the row loop: lines 95-131 of parse_excel_and_images
upload_parse_begin(a) ==
  /\ LoopFree(a)
  /\ uploads[a].pos = "get_file"
  /\ uploads' = [uploads EXCEPT ![a] =
                   IF \/ IsEmptySheet(Len(uploads[a].rows) + 1)
                      \/ MissingColumn(required)
                      \/ (uploads[a].replace /\ stale)
                     THEN [uploads[a] EXCEPT !.pos = "reply"]
                     ELSE [uploads[a] EXCEPT
                             !.pos = "rows",
                             !.view = IF uploads[a].replace THEN Wipe(db) ELSE db]]
  /\ UNCHANGED <<store_vars, nav_vars, admin_conv, admin_ids>>

\* one iteration of the row loop, lines 133-216, with the commit of line 218
\* after the last row and the except clause of lines 223-225
upload_parse_row(a) ==
  /\ LoopFree(a)
  /\ uploads[a].pos = "rows"
  /\ \E r \in {LoadRow(uploads[a].view, required, Head(uploads[a].rows), stale)} :
       /\ r.db.seq.olympiads <= MaxUploadId
       /\ IF r.outcome \in {"OverflowError", "OperationalError"}
            THEN /\ uploads' = [uploads EXCEPT ![a].pos = "reply"]
                 /\ db' = Commit(db, r.db, FALSE)
                 /\ stale' = (stale \/ uploads[a].replace \/ uploads[a].inserted > 0)
          ELSE IF Len(uploads[a].rows) = 1
            THEN /\ uploads' = [uploads EXCEPT ![a].pos = "reply",
                                               ![a].rows = <<>>,
                                               ![a].view = r.db]
                 /\ db' = Commit(db, r.db, TRUE)
                 /\ stale' = stale
          ELSE /\ uploads' = [uploads EXCEPT
                               ![a].rows = Tail(@),
                               ![a].view = r.db,
                               ![a].inserted = IF r.outcome = "inserted"
                                                 THEN @ + 1 ELSE @]
               /\ db' = db
               /\ stale' = stale
  /\ tx' = db'
  /\ UNCHANGED <<pc, run, ret, loaded, prev, nav_vars, admin_conv, admin_ids>>

\* lines 680-685: the reply is sent and the handler returns
upload_reply(a) ==
  /\ LoopFree(a)
  /\ uploads[a].pos = "reply"
  /\ uploads' = [uploads EXCEPT ![a] = NoUpload]
  /\ UNCHANGED <<store_vars, nav_vars, admin_conv, admin_ids>>

\* the bundles the operators send: one of one row, one of two rows, one
\* whose second row makes the run raise
LoopSheets ==
  Sheets \cup {<<SheetRow(1, 1, <<"A">>), SheetRow(1, 2, <<"A", ",", " ", "B">>)>>}

LoopNext ==
  \/ \E a \in Users, replace \in BOOLEAN, rows \in LoopSheets :
        upload_received(a, replace, rows)
  \/ \E a \in Users : upload_parse_begin(a)
  \/ \E a \in Users : upload_parse_row(a)
  \/ \E a \in Users : upload_reply(a)
  \/ Collect /\ UNCHANGED <<nav_vars, admin_vars>>

LoopSpec == Init /\ [][LoopNext]_vars

(***************************************************************************)
(* admin_conv, lines 772-796, next to main_conversation.  Both handlers    *)
(* are in group 0 and main_conversation is added first (lines 798-799): an *)
(* update goes to main_conversation, and to admin_conv only when           *)
(* main_conversation has no handler for it.                                *)
(***************************************************************************)
ADMIN_UPLOAD_REPLACE == "ADMIN_UPLOAD_REPLACE"
ADMIN_UPLOAD_APPEND == "ADMIN_UPLOAD_APPEND"
ADMIN_CONFIRM_CLEAR == "ADMIN_CONFIRM_CLEAR"

\* the captions of the admin panel, lines 610-613, and of the confirmation
MENU_REPLACE == <<"Zagruzit", " ", "dannye">>
MENU_APPEND == <<"Dopolnit", " ", "dannye">>
MENU_CLEAR == <<"Udalit", " ", "dannye">>
MENU_EXIT == <<"Vyjti">>
YES == <<"Da">>

MenuChoices == {MENU_REPLACE, MENU_APPEND, MENU_CLEAR, MENU_EXIT}

\* the handler of admin_conv for a text or a command.  allow_reentry: the
\* entry points are tried first, also inside a conversation; then the
\* handlers of the state, then the fallbacks
AdminRoute(state, update) ==
  IF update = Command("admin") \/ IsText(update, {BTN_ADMIN}) THEN "admin_start"
  ELSE IF state = END THEN "none"
  ELSE IF AnyText(update)
    THEN CASE state = ADMIN_MENU -> "admin_menu"
           [] state \in {ADMIN_UPLOAD_REPLACE, ADMIN_UPLOAD_APPEND} -> "admin_upload_file"
           [] state = ADMIN_CONFIRM_CLEAR -> "admin_confirm_clear"
           [] OTHER -> "none"
  ELSE IF update = Command("cancel") THEN "cancel"
  ELSE "none"

\* Application.process_update: the handler that takes the update, of
\* main_conversation first
Dispatch(u, update) ==
  IF Route(conv[u], update) # "none"
    THEN [by |-> "main_conversation", handler |-> Route(conv[u], update)]
    ELSE [by |-> "admin_conv", handler |-> AdminRoute(admin_conv[u], update)]

\* admin_menu, lines 623-644
AdminMenuResult(user_id, state, text) ==
  IF user_id \notin admin_ids
    THEN Result(END, state, Reply("denied", <<>>, NoTask))
  ELSE IF text = MENU_EXIT
    THEN Result(END, state, Reply("exited", <<>>, NoTask))
  ELSE IF text = MENU_REPLACE
    THEN Result(ADMIN_UPLOAD_REPLACE, state, Reply("send_zip", <<>>, NoTask))
  ELSE IF text = MENU_APPEND
    THEN Result(ADMIN_UPLOAD_APPEND, state, Reply("send_zip", <<>>, NoTask))
  ELSE IF text = MENU_CLEAR
    THEN Result(ADMIN_CONFIRM_CLEAR, state, Reply("confirm_clear", <<>>, NoTask))
  ELSE Result(ADMIN_MENU, state, Reply("choose_from_menu", <<>>, NoTask))

\* ConversationHandler.handle_update of admin_conv
AdminHandle(u, handler, r) ==
  /\ admin_conv' = IF r.raised THEN admin_conv ELSE [admin_conv EXCEPT ![u] = r.next]
  /\ user_states' = [user_states EXCEPT ![u] = r.state]
  /\ out' = [user |-> u, handler |-> handler, from |-> admin_conv[u],
             reply |-> r.reply, raised |-> r.raised]
  /\ UNCHANGED <<conv, admin_ids, uploads>>

\* admin_start as entry point of admin_conv
admin_entry(u, update) ==
  /\ Dispatch(u, update) = [by |-> "admin_conv", handler |-> "admin_start"]
  /\ AdminHandle(u, "admin_start", AdminStartResult(u, user_states[u]))
  /\ UNCHANGED store_vars

admin_menu(u, update) ==
  /\ Dispatch(u, update) = [by |-> "admin_conv", handler |-> "admin_menu"]
  /\ AdminHandle(u, "admin_menu", AdminMenuResult(u, user_states[u], update.text))
  /\ UNCHANGED store_vars

\* admin_upload_file, lines 646-649, for a message that is a text
admin_upload_text(u, update) ==
  /\ Dispatch(u, update) = [by |-> "admin_conv", handler |-> "admin_upload_file"]
  /\ AdminHandle(u, "admin_upload_file",
                 Result(admin_conv[u], user_states[u], Reply("send_zip", <<>>, NoTask)))
  /\ UNCHANGED store_vars

\* admin_upload_file, lines 651-685, for a ZIP document with a sheet.  No
\* handler of main_conversation and no entry point takes a document
admin_upload_file(u, rows) ==
  /\ admin_conv[u] \in {ADMIN_UPLOAD_REPLACE, ADMIN_UPLOAD_APPEND}
  /\ \E r \in {parse_excel_and_images(db, stale, admin_conv[u] = ADMIN_UPLOAD_REPLACE,
                                      required, rows)} :
       /\ r.db.seq.olympiads <= MaxUploadId
       /\ db' = r.db
       /\ tx' = r.db
       /\ stale' = r.stale
       /\ AdminHandle(u, "admin_upload_file",
                      IF r.value
                        THEN Result(END, user_states[u], Reply("loaded", <<>>, NoTask))
                        ELSE Result(admin_conv[u], user_states[u],
                                    Reply("load_failed", <<>>, NoTask)))
  /\ UNCHANGED <<pc, run, ret, loaded, prev>>

\* a document sent in another state: no handler takes it
DocumentIgnored(u) ==
  /\ admin_conv[u] \notin {ADMIN_UPLOAD_REPLACE, ADMIN_UPLOAD_APPEND}
  /\ out' = [user |-> u, handler |-> "none", from |-> admin_conv[u],
             reply |-> Reply("none", <<>>, NoTask), raised |-> FALSE]
  /\ UNCHANGED <<conv, user_states, store_vars, admin_vars>>

\* admin_confirm_clear, lines 687-705
admin_confirm_clear(u, update) ==
  /\ Dispatch(u, update) = [by |-> "admin_conv", handler |-> "admin_confirm_clear"]
  /\ db' = IF update.text = YES /\ ~stale THEN ClearTables(db) ELSE db
  /\ tx' = db'
  /\ AdminHandle(u, "admin_confirm_clear",
                 IF update.text = YES
                   THEN Result(END, user_states[u], Reply("cleared", <<>>, NoTask))
                   ELSE Result(ADMIN_MENU, user_states[u],
                               Reply("clear_cancelled", <<>>, NoTask)))
  /\ UNCHANGED <<pc, run, ret, stale, loaded, prev>>

\* cancel, lines 595-598, as fallback of admin_conv
admin_cancel(u, update) ==
  /\ Dispatch(u, update) = [by |-> "admin_conv", handler |-> "cancel"]
  /\ AdminHandle(u, "cancel", CancelResult(user_states[u]))
  /\ UNCHANGED store_vars

\* neither conversation has a handler for the update
Ignored(u, update) ==
  /\ Dispatch(u, update) = [by |-> "admin_conv", handler |-> "none"]
  /\ Unhandled(u, update)

\* the values of ADMIN_IDS the process is started with
AdminIdSets == {{1}, {1, 2}}

\* the process is started again with ADMIN_IDS = ids (lines 715-724):
\* user_states is empty, PicklePersistence gives both conversations
\* (persistent=True) their states back
RestartWith(ids) ==
  /\ admin_ids' = ids
  /\ user_states' = [u \in Users |-> NoState]
  /\ stale' = FALSE
  /\ out' = NoOut
  /\ UNCHANGED <<db, tx, pc, run, ret, loaded, prev, conv, admin_conv, uploads>>

AdminUpdates ==
  {Command("start"), Command("admin"), Command("cancel")}
  \cup {Text(t) : t \in MenuChoices \cup {BTN_START, BTN_ADMIN, YES, Digits(1)}}

\* one bundle of one row and one of two rows
AdminSheets ==
  { <<SheetRow(1, 1, <<"A">>)>>,
    <<SheetRow(1, 1, <<"A">>), SheetRow(1, 2, <<"A", ",", " ", "B">>)>> }

\* callers come one after another, as in NavSpec
AdminAlone(u) == Alone(u) /\ \A v \in Users \ {u} : admin_conv[v] = END

\* an update of a caller, handled by the conversation that takes it
ProcessAdminUpdate(u, update) ==
  \/ start(u, update)
  \/ choose_year(u, update)
  \/ choose_exercise(u, update)
  \/ cancel(u, update)
  \/ admin_start(u, update)
  \/ admin_entry(u, update)
  \/ admin_menu(u, update)
  \/ admin_upload_text(u, update)
  \/ admin_confirm_clear(u, update)
  \/ admin_cancel(u, update)
  \/ Ignored(u, update)

AdminNext ==
  \/ \E u \in Users, update \in AdminUpdates :
        \/ AdminAlone(u) /\ start(u, update)
        \/ AdminAlone(u) /\ choose_year(u, update)
        \/ AdminAlone(u) /\ choose_exercise(u, update)
        \/ AdminAlone(u) /\ cancel(u, update)
        \/ AdminAlone(u) /\ admin_start(u, update)
        \/ AdminAlone(u) /\ admin_entry(u, update)
        \/ AdminAlone(u) /\ admin_menu(u, update)
        \/ AdminAlone(u) /\ admin_upload_text(u, update)
        \/ AdminAlone(u) /\ admin_confirm_clear(u, update)
        \/ AdminAlone(u) /\ admin_cancel(u, update)
        \/ AdminAlone(u) /\ Ignored(u, update)
  \/ \E u \in Users, rows \in AdminSheets : AdminAlone(u) /\ admin_upload_file(u, rows)
  \/ \E u \in Users : AdminAlone(u) /\ DocumentIgnored(u)
  \/ \E ids \in AdminIdSets : RestartWith(ids)

AdminSpec == Init /\ [][AdminNext]_vars

(***************************************************************************)
(* Edited messages.  The handlers of main_conversation are MessageHandlers *)
(* and CommandHandlers without filters.UpdateType.MESSAGE, so an edited    *)
(* message whose new text matches is routed like a new one; for it         *)
(* update.message is None and update.effective_user the caller.            *)
(***************************************************************************)
\* what a handler leaves when update.message is None: it raises
\* AttributeError at its first update.message, which in
\* back_to_year_selection (line 573) and cancel (line 596) comes after the
\* pop of the caller's entry, and in the other handlers before any write
EditedResult(handler, state) ==
  Raised(IF handler \in {"back_to_year_selection", "cancel"} THEN NoState ELSE state,
         "AttributeError")

\* the caller edits a message that was sent before; its new text is that
\* of update
edited_message(u, update) ==
  /\ Route(conv[u], update) # "none"
  /\ Handle(u, Route(conv[u], update),
            EditedResult(Route(conv[u], update), user_states[u]))

\* one run of the process: the navigation of NavSpec without a restart,
\* with edited messages
SessionNext ==
  \/ \E u \in Users, update \in Updates :
        \/ Alone(u) /\ start(u, update)
        \/ Alone(u) /\ choose_year(u, update)
        \/ Alone(u) /\ choose_exercise(u, update)
        \/ Alone(u) /\ show_hint(u, update)
        \/ Alone(u) /\ show_answer(u, update)
        \/ Alone(u) /\ show_topic_exercises(u, update)
        \/ Alone(u) /\ back_to_year_selection(u, update)
        \/ Alone(u) /\ back_to_exercises(u, update)
        \/ Alone(u) /\ cancel(u, update)
        \/ Alone(u) /\ admin_start(u, update)
        \/ Alone(u) /\ Unhandled(u, update)
        \/ Alone(u) /\ edited_message(u, update)
  \/ \E replace \in BOOLEAN, rows \in Sheets : Upload(replace, required, rows)
  \/ ClearAll
  \/ Collect /\ UNCHANGED <<nav_vars, admin_vars>>

SessionSpec == Init /\ [][SessionNext]_vars

(***************************************************************************)
(* Properties.                                                             *)
(***************************************************************************)
\* the olympiads rows a query finds for a (year, exercise)
TaskRows(d, year, excercise) ==
  {o \in OlympiadsOfYear(d, year) : o.excercise = excercise}

\* a stored row carries the texts and image references of a sheet row
HasFieldsOf(o, headers, row) ==
  /\ o.task = _clean_value(row.Task)
  /\ o.hint = _clean_value(row.Hint)
  /\ o.answer = _clean_value(row.Answer)
  /\ o.task_picture = PicOf(headers, row, "Task_picture")
  /\ o.hint_picture = PicOf(headers, row, "Hint_picture")
  /\ o.answer_picture = PicOf(headers, row, "Answer_picture")

\* a store operation is over and the last one was an ingestion in this mode
Ended(mode) == pc = "idle" /\ ret.op = mode

\* C1: after two append ingestions whose bundles both held a valid row for
\* the same (year, exercise), the store holds exactly one Task for the pair,
\* with the texts and image references of the second bundle's row.
C1_AppendTwiceOverwrites ==
  (Ended("append") /\ prev.op = "append") =>
     \A l \in loaded :
        <<l.year, l.excercise>> \in prev.pairs =>
           /\ Cardinality(TaskRows(db, l.year, l.excercise)) = 1
           /\ \A o \in TaskRows(db, l.year, l.excercise) :
                 HasFieldsOf(o, l.headers, l.row)

\* the header names every required column
NamesRequired(headers) ==
  {"Year", "Excercise", "Topic", "Task", "Hint", "Answer"} \subseteq Range(headers)

\* no Year, no Topic and no Task
NoContent(d) == d.years = {} /\ d.topics = {} /\ d.olympiads = {}

\* C2 as claimed: a replace ingestion followed at once by a replace ingestion
\* of a sheet with the required header and no data rows leaves zero Years,
\* Topics and Tasks.
C2_ReplaceEmptyClears ==
  [][\A headers \in Headers :
        (/\ ret.op = "replace"
         /\ NamesRequired(headers)
         /\ ParseBegin(TRUE, headers, 1)) => (pc' = "idle" /\ NoContent(db'))]_vars

\* C2 amended: a replace ingestion followed at once by a replace ingestion of
\* a sheet with the required header and no data rows is refused: it returns
\* False, processes no row, and leaves the store as the first one left it.
C2_ReplaceEmptyRefused ==
  [][\A headers \in Headers :
        (/\ ret.op = "replace"
         /\ NamesRequired(headers)
         /\ ParseBegin(TRUE, headers, 1))
        => (pc' = "idle" /\ ~ret'.value /\ db' = db)]_vars

\* C2 witness: an empty sheet was refused after a replace ingestion that had
\* loaded content, and the content is still there.
C2_Witness ==
  /\ Ended("replace") /\ ret.error = "empty" /\ prev.op = "replace"
  /\ prev.pairs # {} /\ db.olympiads # {}

\* C3: every stored Task has, for each of task, hint and answer, a non-empty
\* text or an image reference.
C3_EveryPartHasTextOrImage ==
  \A o \in db.olympiads :
     /\ o.task # <<>> \/ Truthy(o.task_picture)
     /\ o.hint # <<>> \/ Truthy(o.hint_picture)
     /\ o.answer # <<>> \/ Truthy(o.answer_picture)

\* the Year or the Exercise cell of the row cannot be turned into an integer
NotAnInteger(row) ==
  \/ IntFloat(row.Year).tag # "ok"
  \/ IntFloat(row.Excercise).tag # "ok"

\* C4: a non-blank row whose Year or Exercise cell cannot be turned into an
\* integer loads nothing and does not abort the run: the loop goes on to the
\* next row with exactly one more on the skip counter, or, after the last
\* row, the run commits what the other rows loaded and returns True.
C4_BadNumberRowIsSkipped ==
  [][\A row \in Rows :
        (/\ ParseRow(row)
         /\ ~IsBlankRow(run.headers, row)
         /\ NotAnInteger(row))
        => /\ loaded' = loaded
           /\ \/ /\ pc' = "rows" /\ tx' = tx
                 /\ run'.skipped = run.skipped + 1
                 /\ run'.inserted = run.inserted
              \/ pc' = "idle" /\ ret'.value /\ db' = tx]_vars

\* C5: whenever a replace ingestion has not (or not yet) returned True, in
\* particular when it returns False after wiping and loading rows on its
\* connection, the store later queries read is the store from before the run.
C5_FailedReplaceKeepsStore ==
  [][(ret'.op = "replace" /\ ~ret'.value) => db' = db]_vars

\* C5 witness: a replace ingestion wiped, loaded a row and then failed, and
\* the store still holds content.
C5_Witness ==
  /\ Ended("replace") /\ ~ret.value /\ ret.error = "OverflowError"
  /\ loaded # {} /\ db.olympiads # {}

\* the headers of Headers that lack a required column
HeadersLacking == {headers \in Headers : ~NamesRequired(headers)}

\* C6: an ingestion, replace or append, of a sheet whose header lacks a
\* required column returns False before any row is processed and leaves the
\* store unchanged.
C6_MissingColumnRefused ==
  [][\A headers \in HeadersLacking, replace \in BOOLEAN, max_row \in 1..(MaxRows + 1) :
        ParseBegin(replace, headers, max_row)
        => (pc' = "idle" /\ ~ret'.value /\ db' = db /\ tx' = db)]_vars

\* C6 witness: a sheet without the Hint column was refused while the store
\* held content.
C6_Witness ==
  /\ pc = "idle" /\ ret.error = "Missing column" /\ db.olympiads # {}

\* what the queries show of the Tasks of a database: texts, image references
\* and topic set per (year, exercise)
TaskView(d) ==
  {[year |-> y, excercise |-> t.excercise,
    task |-> t.task, t_pic |-> t.t_pic, hint |-> t.hint, h_pic |-> t.h_pic,
    answer |-> t.answer, a_pic |-> t.a_pic, topics |-> t.topics] :
     <<y, t>> \in UNION {{<<y, t>> :
                  t \in UNION {Range(get_tasks_for_year_and_exercise(d, y, e)) :
                                 e \in Range(get_exercises_for_year(d, y))}} :
                  y \in Range(get_years_from_db(d))}}

\* C7: no step of an append ingestion removes anything: every Year and Topic
\* stays, and every Task whose (year, exercise) is not that of a loaded row
\* stays with the same texts, image references and topic set.
C7_AppendRemovesNothing ==
  [][ret'.op = "append" =>
       /\ Range(get_years_from_db(db)) \subseteq Range(get_years_from_db(db'))
       /\ {t.name : t \in db.topics} \subseteq {t.name : t \in db'.topics}
       /\ \A v \in TaskView(db) :
             <<v.year, v.excercise>> \notin PairsOf(loaded') => v \in TaskView(db')]_vars

\* C7 witness: an append ingestion committed rows into a store that held
\* another Task, which is still there.
C7_Witness ==
  /\ Ended("append") /\ ret.value /\ loaded # {}
  /\ \E v \in TaskView(db) : <<v.year, v.excercise>> \notin PairsOf(loaded)

\* all four tables are empty
NoRows(d) == NoContent(d) /\ d.olympiad_topics = {}

\* C8: after clear_database the store holds no Year, no Topic, no Task and
\* no Topic-Task association row.
C8_ClearDeletesEverything == Ended("clear") => NoRows(db)

\* C9: every Topic-Task association row refers to a Task that exists and to
\* a Topic that exists.
C9_AssociationsReferToRows ==
  \A ot \in db.olympiad_topics :
     /\ \E o \in db.olympiads : o.id = ot.olympiad_id
     /\ \E t \in db.topics : t.id = ot.topic_id

\* C10: after an ingestion that loaded a row for (year, exercise), the
\* topic set get_tasks_for_year_and_exercise reports is the set of non-empty
\* trimmed comma-separated fragments of the row's Topic cell, and
\* get_exercises_by_topics_and_year no longer returns the exercise for a
\* topic an earlier version of the task had and the row does not name.
C10_TopicsAreThoseOfTheRow ==
  (pc = "idle" /\ ret.op \in {"replace", "append"} /\ ret.value) =>
     \A l \in loaded :
        LET found == get_tasks_for_year_and_exercise(db, l.year, l.excercise)
            named == Range(TopicsList(l.row.Topic))
        IN  /\ Len(found) = 1
            /\ found[1].topics = named
            /\ \A t \in l.old_topics \ named :
                  l.excercise \notin
                    Range(get_exercises_by_topics_and_year(db, l.year, {t}))

\* C10 witness: an ingestion committed a row that drops a topic the earlier
\* version of the task had.
C10_Witness ==
  /\ pc = "idle" /\ ret.op = "append" /\ ret.value
  /\ \E l \in loaded : l.old_topics \ Range(TopicsList(l.row.Topic)) # {}

(***************************************************************************)
(* Properties of the navigation.                                           *)
(***************************************************************************)
\* the years and the non-empty topic sets the queries are asked about
QueryYears == {0, 1, 2}
QueryTopics == (SUBSET {<<"A">>, <<"B">>, <<"C">>}) \ {{}}

\* the sequence is strictly ascending
Ascending(q) == \A i \in 1..(Len(q) - 1) : q[i] < q[i + 1]

\* the exercise numbers of the year whose task, as
\* get_tasks_for_year_and_exercise reports it, has a topic of the set
SharingTopics(d, year, topic_list) ==
  {e \in Range(get_exercises_for_year(d, year)) :
     \E t \in Range(get_tasks_for_year_and_exercise(d, year, e)) :
        t.topics \cap topic_list # {}}

\* C11: for every store state, year and non-empty topic set,
\* get_exercises_by_topics_and_year returns exactly the exercise numbers of
\* the year's Tasks that have a topic of the set, each once, ascending (so
\* the empty list when there is none).
C11_SharingTopicsListed ==
  \A year \in QueryYears, topic_list \in QueryTopics :
     LET q == get_exercises_by_topics_and_year(db, year, topic_list) IN
     /\ Range(q) = SharingTopics(db, year, topic_list)
     /\ Ascending(q)

\* C11 witness: year 1 holds a task on topics A and B and year 2 a task on
\* topic A; asking year 1 for A, or for B, lists the first and not the other.
C11_Witness ==
  /\ pc = "idle"
  /\ get_exercises_by_topics_and_year(db, 1, {<<"A">>}) = <<2>>
  /\ get_exercises_by_topics_and_year(db, 1, {<<"B">>}) = <<2>>
  /\ get_exercises_by_topics_and_year(db, 2, {<<"A">>}) = <<1>>
  /\ get_exercises_by_topics_and_year(db, 2, {<<"B">>}) = <<>>

\* the entry holds a current task
HasTask(state) == "current_task" \in state.keys

\* the store no longer has the year of the caller's entry, or no longer has
\* a task for the (year, exercise) of the entry's current task
ContentGone(d, state) ==
  /\ state.keys # {}
  /\ \/ state.year \notin Range(get_years_from_db(d))
     \/ /\ HasTask(state)
        /\ get_tasks_for_year_and_exercise(d, state.year,
                                           state.current_task.excercise) = <<>>

\* the caller's update is one of select-exercise, reveal-hint, reveal-answer,
\* browse-related and back
NavigationCommand(u, update) ==
  \/ choose_exercise(u, update)
  \/ show_hint(u, update)
  \/ show_answer(u, update)
  \/ show_topic_exercises(u, update)
  \/ back_to_exercises(u, update)
  \/ back_to_year_selection(u, update)

\* C12: when the task or the year held in a caller's session is no longer in
\* the store, the caller's next navigation command (select-exercise,
\* reveal-hint, reveal-answer, browse-related, back) puts the caller in
\* ChoosingYear and does not fail.
C12_RemovedContentResets ==
  [][\A u \in Users, update \in Updates :
        (ContentGone(db, user_states[u]) /\ NavigationCommand(u, update))
        => (conv'[u] = CHOOSE_YEAR /\ ~out'.raised)]_vars

InvalidSelection(d, state, entry, update) ==
  /\ ~update.command
  /\ update.text \notin {BTN_START, BTN_BACK_TO_YEAR, BTN_BACK_TO_EXERCISES, BTN_ADMIN}
  /\ IF state = CHOOSE_YEAR
       THEN \/ PyInt(update.text).tag # "ok"
            \/ get_exercises_for_year(d, PyInt(update.text).n) = <<>>
       ELSE /\ entry.keys # {}
            /\ \/ ParseExercise(entry.year, update.text).tag # "ok"
               \/ get_tasks_for_year_and_exercise(d, entry.year,
                     ParseExercise(entry.year, update.text).n) = <<>>

\* C14: in ChoosingYear, ChoosingExercise and BrowsingRelatedByTopic an input
\* that is not a valid selection leaves the caller in the same state with the
\* same session entry; the conversation does not end.
C14_InvalidInputKeepsState ==
  [][\A u \in Users, update \in Updates :
        (/\ conv[u] \in {CHOOSE_YEAR, CHOOSE_EXERCISE, CHOOSE_TOPIC_EXERCISE}
         /\ InvalidSelection(db, conv[u], user_states[u], update)
         /\ ProcessUpdate(u, update))
        => (conv'[u] = conv[u] /\ user_states'[u] = user_states[u])]_vars

\* C15: when a caller moves from ChoosingExercise to ViewingTask by selecting
\* exercise n, n is in the exercise list of the caller's session, and the
\* session then holds the store's Task for (session year, n) with its topic
\* set, year and exercise list unchanged.
C15_SelectedExerciseIsListed ==
  [][\A u \in Users, update \in Updates :
        (conv[u] = CHOOSE_EXERCISE /\ choose_exercise(u, update) /\ conv'[u] = TASK)
        => LET n == user_states'[u].current_task.excercise
               found == get_tasks_for_year_and_exercise(db, user_states[u].year, n)
           IN  /\ n \in Range(user_states[u].exercises)
               /\ found # <<>>
               /\ user_states'[u].current_task = found[1]
               /\ user_states'[u].current_topics = found[1].topics
               /\ user_states'[u].year = user_states[u].year
               /\ user_states'[u].exercises = user_states[u].exercises]_vars

C17_BrowseFromTaskHintAnswer ==
  [][\A u \in Users :
        (/\ conv[u] \in {TASK, HINT, ANSWER}
         /\ HasTask(user_states[u])
         /\ get_exercises_by_topics_and_year(db, user_states[u].year,
                                             user_states[u].current_topics) # <<>>
         /\ ProcessUpdate(u, Text(BTN_TOPIC_EXERCISES)))
        => conv'[u] = CHOOSE_TOPIC_EXERCISE]_vars

\* C18 as claimed: a back command right after browse-related returns the
\* caller to the state browse-related was issued from, the current task
\* unchanged.
C18_BackReturnsToOrigin ==
  [][\A u \in Users, back \in {BTN_BACK_TO_EXERCISES, BTN_BACK_TO_YEAR} :
        (/\ out.user = u /\ out.handler = "show_topic_exercises"
         /\ conv[u] = CHOOSE_TOPIC_EXERCISE
         /\ ProcessUpdate(u, Text(back)))
        => /\ conv'[u] = out.from
           /\ user_states'[u].current_task = user_states[u].current_task]_vars

\* C18 amended: the back command "K vyboru zadach" of a caller in
\* BrowsingRelatedByTopic who has a session entry puts the caller in
\* ChoosingExercise, showing the session's exercise list, with the session
\* entry and its current task unchanged.
C18_BackFromBrowsingToList ==
  [][\A u \in Users :
        (conv[u] = CHOOSE_TOPIC_EXERCISE /\ HasTask(user_states[u])
         /\ ProcessUpdate(u, Text(BTN_BACK_TO_EXERCISES)))
        => /\ conv'[u] = CHOOSE_EXERCISE
           /\ user_states'[u] = user_states[u]
           /\ out'.reply.kind = "exercises"]_vars

\* C18 witness: a caller left the list of related exercises by the back
\* command and is choosing an exercise, the current task still in the entry.
C18_Witness ==
  /\ out.handler = "back_to_exercises" /\ out.from = CHOOSE_TOPIC_EXERCISE
  /\ conv[out.user] = CHOOSE_EXERCISE
  /\ HasTask(user_states[out.user])

\* C19: the list shown on entering BrowsingRelatedByTopic holds exercises of
\* the session's year that share a topic with the current task, and not the
\* current task's own exercise number.
C19_RelatedListHasOthersOnly ==
  [][\A u \in Users, update \in Updates :
        (show_topic_exercises(u, update) /\ conv'[u] = CHOOSE_TOPIC_EXERCISE)
        => /\ \A e \in Range(out'.reply.list) :
                 \E t \in Range(get_tasks_for_year_and_exercise(
                                   db, user_states[u].year, e)) :
                    t.topics \cap user_states[u].current_topics # {}
           /\ user_states[u].current_task.excercise
                 \notin Range(out'.reply.list)]_vars

\* C20: a caller whose navigation conversation has ended has no entry in
\* user_states.
C20_EndedCallerHasNoEntry ==
  \A u \in Users : conv[u] = END => user_states[u] = NoState


(***************************************************************************)
(* Properties of the sessions of several callers.                          *)
(***************************************************************************)
\* C21: for two distinct callers whose navigation commands interleave in
\* any order, a command of one caller leaves the other caller's entry of
\* the session registry (year, exercise list, current task, current topics)
\* and the other caller's navigation state unchanged: the entry and the
\* state of a caller change only in a step that handles an update of that
\* caller.
C21_CallersDoNotInterfere ==
  [][\A v \in Users :
        (conv'[v] # conv[v] \/ user_states'[v] # user_states[v])
        => /\ out'.user = v
           /\ \E update \in ConcUpdates : ProcessUpdate(v, update)]_vars

\* caller 1 has just acted in the middle of a session of its own while
\* caller 2 is viewing the hint of another task
C21_Witness ==
  /\ out.user = 1
  /\ out.handler = "show_topic_exercises"
  /\ conv[1] = CHOOSE_TOPIC_EXERCISE
  /\ user_states[1].current_task.excercise = 1
  /\ conv[2] = HINT
  /\ user_states[2].current_task.excercise = 2


(***************************************************************************)
(* Properties of concurrent ingestion runs.                                *)
(***************************************************************************)
\* C22: at most one ingestion run executes at a time.  For two operators
\* who submit bundles in any interleaving, while the run of one operator is
\* inside parse_excel_and_images no step of the other operator's upload
\* happens: the other neither enters its own run nor writes or commits, so
\* the wipe, the upserts and the commit of a run are never interleaved with
\* those of another run.
C22_OneRunAtATime ==
  [][\A a \in Users :
        uploads[a].pos = "rows"
        => /\ \A b \in Users \ {a} : uploads'[b] = uploads[b]
           /\ (db' # db => uploads'[a].pos = "reply")]_vars

\* the replace run of operator 1 has wiped and loaded the first of its two
\* rows while operator 2 has sent a bundle and waits for the event loop
C22_Witness ==
  /\ uploads[1].pos = "rows"
  /\ uploads[1].replace
  /\ uploads[1].inserted = 1
  /\ uploads[1].view # db
  /\ uploads[2].pos = "get_file"


(***************************************************************************)
(* Properties of the row validation of an ingestion.                       *)
(***************************************************************************)
\* lines 152-155: the cell holds a value, a number or a text
HasValue(c) == c.k = "num" \/ (c.k = "str" /\ c.s # <<>>)

\* the rows an ingestion is documented to load: Year and Excercise convert
\* (lines 138-150), the Topic cell has a fragment left (line 168), and each
\* of task, hint and answer has a value or a picture filename (lines 152-160)
IsValidRow(headers, row) ==
  /\ IntFloat(row.Year).tag = "ok"
  /\ IntFloat(row.Excercise).tag = "ok"
  /\ HasValue(row.Topic)
  /\ TopicsList(row.Topic) # <<>>
  /\ HasValue(row.Task) \/ PicOf(headers, row, "Task_picture") # None
  /\ HasValue(row.Hint) \/ PicOf(headers, row, "Hint_picture") # None
  /\ HasValue(row.Answer) \/ PicOf(headers, row, "Answer_picture") # None

\* C23: an ingestion loads a non-blank row exactly when its Year and
\* Exercise parse as integers, its Topic cell yields a non-empty fragment
\* and each of task, hint and answer has a text value or an image filename,
\* for every integer Year and Exercise (0 included) and every supplied value
\* (a numeric 0 included).  Stated of the steps of the row loop of a run
\* whose connection is not locked out.
C23_LoadedExactlyWhenValid ==
  [][\A row \in Rows :
        (/\ pc = "rows"
         /\ ~stale
         /\ ~IsBlankRow(run.headers, row)
         /\ ParseRow(row))
        => (LoadRow(tx, run.headers, row, stale).outcome = "inserted"
              <=> IsValidRow(run.headers, row))]_vars


(***************************************************************************)
(* Properties of the administration.                                       *)
(***************************************************************************)
\* C24: whenever the admin panel has been shown to an administrator
\* (admin_start returned ADMIN_MENU), by /admin or by the admin button
\* offered after /start, the administrator's next menu choice (replace-load,
\* append-load, clear, exit) is dispatched to admin_menu and acted on.
C24_PanelChoiceReachesMenu ==
  [][\A u \in Users :
        (/\ out.user = u
         /\ out.reply.kind = "admin_panel"
         /\ out'.user = u)
        => \A update \in {Text(t) : t \in MenuChoices} :
              ProcessAdminUpdate(u, update) => out'.handler = "admin_menu"]_vars

\* C25: no replace ingestion, append ingestion or clear of the store is
\* executed on behalf of a caller whose id is not in admin_ids: a step that
\* changes the store content handles an update of an administrator.
C25_OnlyAdministratorsChangeStore ==
  [][db' # db => out'.user \in admin_ids]_vars


(***************************************************************************)
(* Properties of the queries during an ingestion.                          *)
(***************************************************************************)
\* mutant of QueryView: the queries read through the connection of the run
QueryView_RunConnection == tx

\* what get_years_from_db, get_exercises_for_year,
\* get_tasks_for_year_and_exercise and get_exercises_by_topics_and_year
\* read: each opens a connection of its own (lines 256, 262, 277, 312), which
\* sees the committed database
QueryView == db

\* C26: no navigation query observes a partially applied ingestion.  From
\* the step that opens a run to the step that ends it, the content the
\* queries read stays the content from before the run; it changes only in
\* the step in which the run returns True, to the content of the commit
\* after the last row.  A wiped or partly loaded view is never read.
C26_QueriesSeeNoPartialRun ==
  [][(pc = "rows" \/ pc' = "rows")
       => \/ QueryView' = QueryView
          \/ /\ pc = "rows"
             /\ pc' = "idle"
             /\ ret'.value
             /\ run.row_num = run.max_row
             /\ QueryView' = db']_vars

\* a replace run has wiped the old content and loaded the first of its rows
\* on its connection; the committed database still has the old content
C26_Witness ==
  /\ pc = "rows"
  /\ run.replace
  /\ run.inserted = 1
  /\ run.row_num = run.max_row
  /\ db.olympiads # {}
  /\ tx # db
  /\ QueryView = db


(***************************************************************************)
(* Properties of the session registry within one run of the process.       *)
(***************************************************************************)
\* C27: in every reachable state of a run without process restart, a caller
\* whose navigation state is ViewingTask, ViewingHint, ViewingAnswer or
\* BrowsingRelatedByTopic has a session entry that holds a year, an exercise
\* list, a current task and its topic list, and a caller in ChoosingExercise
\* has an entry that holds a year and an exercise list.
C27_StateHasItsEntry ==
  \A u \in Users :
     /\ conv[u] \in {TASK, HINT, ANSWER, CHOOSE_TOPIC_EXERCISE}
        => {"year", "exercises", "current_task", "current_topics"}
             \subseteq user_states[u].keys
     /\ conv[u] = CHOOSE_EXERCISE
        => {"year", "exercises"} \subseteq user_states[u].keys


(***************************************************************************)
(* Properties of the years the committed database lists.                   *)
(***************************************************************************)
\* C28: in every committed store state reachable by replace ingestions,
\* append ingestions and clears, every year that get_years_from_db lists has
\* at least one task: get_exercises_for_year is non-empty for it.
C28_ListedYearHasTask ==
  \A year \in Range(get_years_from_db(db)) : get_exercises_for_year(db, year) # <<>>

\* a clear has emptied a store that held a task, and a successful run after
\* it has committed a task, whose year is listed
C28_Witness ==
  /\ pc = "idle"
  /\ ret.op \in {"replace", "append"}
  /\ ret.value
  /\ prev.op = "clear"
  /\ db.seq.olympiads = 2
  /\ Cardinality(db.olympiads) = 1
  /\ get_years_from_db(db) # <<>>

====
